---- MODULE Spec2Model ----
(***************************************************************************)
(* Model of CO2-emission_app.py: the column detection block, the derived   *)
(* column block, the sidebar filters, the data filtering and the master    *)
(* table export.  The script runs top to bottom on one dataframe; pc is    *)
(* the position of the run in the script.                                  *)
(*                                                                         *)
(* A dataframe is [cols, rows]: the header in column order and the rows,   *)
(* each [idx, v] with its index label and its cells by column name.        *)
(* A column name is a string; Spelling gives its characters, on which the  *)
(* substring and suffix tests of the detection block are computed.         *)
(* A cell is a record [k, n, d]: k = "num" is the number n/d in lowest     *)
(* terms, k = "na" a missing value (NaN, pd.NA), k = "inf" an infinity of  *)
(* sign n, k = "str" the n-th country name of the alphabet order.          *)
(*                                                                         *)
(* df, selected_countries, year_bounds (min_year, max_year),               *)
(* selected_years, filtered and csv are the script's variables.  raw (the  *)
(* header as lower-cased), input (the table before the derived column      *)
(* block), prev (the table before its second pass) and written (the columns*)
(* the last pass assigned) record history for the properties.              *)
(*                                                                         *)
(* SpecNorm runs lines 23-79 on raw headers; Spec runs the derived column  *)
(* block on normalized tables; SpecTwice runs it twice, on tables that may *)
(* already hold a derived column; SpecView runs it and then the sidebar,   *)
(* the filter and the export.                                              *)
(***************************************************************************)
EXTENDS Integers, Sequences, FiniteSets, TLC

VARIABLES pc, df, raw, input, prev, written, selected_countries,
          year_bounds, selected_years, filtered, csv

vars == <<pc, df, raw, input, prev, written, selected_countries,
          year_bounds, selected_years, filtered, csv>>

\* ---------------------------------------------------------------- bounds
\* the most rows of a loaded table, and the most columns of a raw header
MaxRows == 2
MaxCols == 2

\* ----------------------------------------------------------------- cells
NA == [k |-> "na", n |-> 0, d |-> 1]
PosInf == [k |-> "inf", n |-> 1, d |-> 0]
NegInf == [k |-> "inf", n |-> -1, d |-> 0]
Str(i) == [k |-> "str", n |-> i, d |-> 1]

RECURSIVE GCD(_, _)
GCD(a, b) == IF b = 0 THEN a ELSE GCD(b, a % b)

Abs(x) == IF x < 0 THEN -x ELSE x

\* the number n/d, d # 0, in lowest terms with a positive denominator
Rat(n, d) ==
    LET g == GCD(Abs(n), Abs(d))
        s == IF d < 0 THEN -1 ELSE 1
    IN  [k |-> "num", n |-> (s * n) \div g, d |-> (s * d) \div g]

isna(a) == a.k = "na"

\* float addition of two numbers
Add(a, b) == Rat(a.n * b.d + b.n * a.d, a.d * b.d)

\* a < b on numbers
Lt(a, b) == a.n * b.d < b.n * a.d

\* the / of two float columns, cell by cell: x/0 is an infinity, 0/0 is NaN
Div(a, b) ==
    IF isna(a) \/ isna(b) THEN NA
    ELSE IF b.n = 0
         THEN (IF a.n = 0 THEN NA ELSE IF a.n > 0 THEN PosInf ELSE NegInf)
         ELSE Rat(a.n * b.d, a.d * b.n)

\* the * 100 of a float column
Times100(a) ==
    IF a.k = "num" THEN Rat(100 * a.n, a.d) ELSE a

fillna(a, v) == IF isna(a) THEN v ELSE a

\* gdp.replace({0: pd.NA})
replace0(a) == IF a.k = "num" /\ a.n = 0 THEN NA ELSE a

\* int(x) of a number: truncation toward zero
int(a) == IF a.n >= 0 THEN a.n \div a.d ELSE -((-a.n) \div a.d)

\* ----------------------------------------------------------------- names
country == "country"
year == "year"
co2 == "co2"
population == "population"
gdp == "gdp"
gdp_per_capita == "gdp_per_capita"
co2_per_capita == "co2_per_capita"
cumulative_co2 == "cumulative_co2"
global_total_co2 == "global_total_co2"
co2_pct == "co2_pct"
global_total_gdp == "global_total_gdp"
gdp_pct == "gdp_pct"
co2_per_gdp == "co2_per_gdp"

master_cols == <<country, year, co2_pct, co2_per_capita, cumulative_co2,
                 gdp_pct, gdp_per_capita, co2_per_gdp>>

\* ------------------------------------------------------------ dataframes
Range(s) == {s[i] : i \in 1..Len(s)}

NoFrame == [cols |-> <<>>, rows |-> <<>>]

\* no download offered
NoCsv == [header |-> <<>>, lines |-> <<>>]

\* df.empty: no row or no column
empty(d) == Len(d.rows) = 0 \/ Len(d.cols) = 0

\* c in df.columns
has(d, c) == c \in Range(d.cols)

\* df.rename(columns={old: new}): the header entry and the key of every row
rename(d, old, new) ==
    [cols |-> [i \in 1..Len(d.cols) |->
                  IF d.cols[i] = old THEN new ELSE d.cols[i]],
     rows |-> [i \in 1..Len(d.rows) |->
                  [idx |-> d.rows[i].idx,
                   v |-> [c \in (Range(d.cols) \ {old}) \cup {new} |->
                            IF c = new THEN d.rows[i].v[old]
                            ELSE d.rows[i].v[c]]]]]

\* df[c] = column: c is overwritten in place, or appended as the last column
assign(d, c, column) ==
    [cols |-> IF has(d, c) THEN d.cols ELSE Append(d.cols, c),
     rows |-> [i \in 1..Len(d.rows) |->
                  [idx |-> d.rows[i].idx,
                   v |-> [x \in Range(d.cols) \cup {c} |->
                            IF x = c THEN column[i] ELSE d.rows[i].v[x]]]]]

\* ------------------------------------------------------- string tests
\* the characters of the column names and patterns the string tests read
Spelling ==
    [country |-> <<"c","o","u","n","t","r","y">>,
     year |-> <<"y","e","a","r">>,
     co2 |-> <<"c","o","2">>,
     population |-> <<"p","o","p","u","l","a","t","i","o","n">>,
     gdp |-> <<"g","d","p">>,
     gdp_per_capita |-> <<"g","d","p","_","p","e","r","_","c","a","p","i","t","a">>,
     co2_per_capita |-> <<"c","o","2","_","p","e","r","_","c","a","p","i","t","a">>,
     co2_ |-> <<"c","o","2","_">>,
     pop |-> <<"p","o","p">>,
     per |-> <<"p","e","r">>,
     gdp_pc |-> <<"g","d","p","_","p","c">>,
     per_capita |-> <<"p","e","r","_","c","a","p","i","t","a">>,
     Co2_Emissions |-> <<"C","o","2","_","E","m","i","s","s","i","o","n","s">>,
     co2_emissions |-> <<"c","o","2","_","e","m","i","s","s","i","o","n","s">>,
     total_co2 |-> <<"t","o","t","a","l","_","c","o","2">>,
     Country_Name |-> <<"C","o","u","n","t","r","y","_","N","a","m","e">>,
     country_name |-> <<"c","o","u","n","t","r","y","_","n","a","m","e">>,
     pop_year |-> <<"p","o","p","_","y","e","a","r">>,
     GDP_PC |-> <<"G","D","P","_","P","C">>,
     gdp_total |-> <<"g","d","p","_","t","o","t","a","l">>,
     pop_total |-> <<"p","o","p","_","t","o","t","a","l">>,
     iso |-> <<"i","s","o">>]

\* sub in name
contains(name, sub) ==
    LET a == Spelling[name]
        b == Spelling[sub]
    IN  \E i \in 0..(Len(a) - Len(b)) : \A j \in 1..Len(b) : a[i + j] = b[j]

\* name.endswith(suf)
endswith(name, suf) ==
    LET a == Spelling[name]
        b == Spelling[suf]
    IN  /\ Len(b) <= Len(a)
        /\ \A j \in 1..Len(b) : a[Len(a) - Len(b) + j] = b[j]

UpperCase == <<"A","B","C","D","E","F","G","H","I","J","K","L","M",
               "N","O","P","Q","R","S","T","U","V","W","X","Y","Z">>
LowerCase == <<"a","b","c","d","e","f","g","h","i","j","k","l","m",
               "n","o","p","q","r","s","t","u","v","w","x","y","z">>

\* c.lower(): every upper-case character replaced by its lower-case one
lower(name) ==
    LET a == Spelling[name]
        l == [i \in 1..Len(a) |->
                 IF \E u \in 1..Len(UpperCase) : UpperCase[u] = a[i]
                 THEN LowerCase[CHOOSE u \in 1..Len(UpperCase) : UpperCase[u] = a[i]]
                 ELSE a[i]]
    IN  CHOOSE x \in DOMAIN Spelling : Spelling[x] = l

\* ------------------------------------------------------ column detection
co2_ == "co2_"
pop == "pop"
per == "per"
gdp_pc == "gdp_pc"
per_capita == "per_capita"

match_country(c) == contains(c, country)
match_year(c) == contains(c, year)
match_co2(c) == co2 = c \/ contains(c, co2_) \/ endswith(c, co2)
match_population(c) == contains(c, pop) /\ c # co2_per_capita
match_gdp(c) == contains(c, gdp) /\ ~contains(c, per)
match_gdp_per_capita(c) == contains(c, gdp_per_capita) \/ contains(c, gdp_pc)
match_co2_per_capita(c) ==
    contains(c, co2_per_capita) \/ (endswith(c, per_capita) /\ contains(c, co2))

\* the detection targets, in the order the script handles them
targets == <<country, year, co2, population, gdp, gdp_per_capita,
             co2_per_capita>>

match(t, c) ==
    CASE t = country -> match_country(c)
      [] t = year -> match_year(c)
      [] t = co2 -> match_co2(c)
      [] t = population -> match_population(c)
      [] t = gdp -> match_gdp(c)
      [] t = gdp_per_capita -> match_gdp_per_capita(c)
      [] t = co2_per_capita -> match_co2_per_capita(c)

\* faulty variant: the loop without its break: the last matching column wins
last_match(d, t) ==
    LET hits == {i \in 1..Len(d.cols) : match(t, d.cols[i])}
    IN  CHOOSE i \in hits : \A j \in hits : i >= j

\* the column the for loop stops at: the first one, in column order
first_match(d, t) ==
    LET hits == {i \in 1..Len(d.cols) : match(t, d.cols[i])}
    IN  CHOOSE i \in hits : \A j \in hits : i <= j

\* if t not in df.columns: for c in df.columns: if <rule>: rename; break
detect(d, t) ==
    IF has(d, t) \/ ~(\E i \in 1..Len(d.cols) : match(t, d.cols[i]))
    THEN d
    ELSE rename(d, d.cols[first_match(d, t)], t)

numeric_cols == <<co2, population, gdp, gdp_per_capita, co2_per_capita>>

\* pd.to_numeric(errors='coerce') of one cell: text becomes a missing value
to_numeric(a) == IF a.k = "str" THEN NA ELSE a

coerce(d) ==
    [cols |-> d.cols,
     rows |-> [i \in 1..Len(d.rows) |->
                  [idx |-> d.rows[i].idx,
                   v |-> [c \in Range(d.cols) |->
                            IF c \in Range(numeric_cols)
                            THEN to_numeric(d.rows[i].v[c])
                            ELSE d.rows[i].v[c]]]]]

\* df.columns = [c.lower() for c in df.columns]
lower_columns(d) ==
    [cols |-> [i \in 1..Len(d.cols) |-> lower(d.cols[i])],
     rows |-> [i \in 1..Len(d.rows) |->
                  [idx |-> d.rows[i].idx,
                   v |-> [c \in {lower(x) : x \in Range(d.cols)} |->
                            d.rows[i].v[CHOOSE x \in Range(d.cols) : lower(x) = c]]]]]

Rest == UNCHANGED <<input, prev, written, selected_countries,
                    year_bounds, selected_years, filtered, csv>>

\* lines 24-25
LowerColumns ==
    /\ pc = "load"
    /\ df' = IF empty(df) THEN df ELSE lower_columns(df)
    /\ raw' = df'.cols
    /\ pc' = "country"
    /\ Rest

DetectCountry ==
    /\ pc = "country"
    /\ df' = IF empty(df) THEN df ELSE detect(df, country)
    /\ pc' = "year"
    /\ UNCHANGED raw /\ Rest

DetectYear ==
    /\ pc = "year"
    /\ df' = IF empty(df) THEN df ELSE detect(df, year)
    /\ pc' = "co2"
    /\ UNCHANGED raw /\ Rest

DetectCo2 ==
    /\ pc = "co2"
    /\ df' = IF empty(df) THEN df ELSE detect(df, co2)
    /\ pc' = "population"
    /\ UNCHANGED raw /\ Rest

DetectPopulation ==
    /\ pc = "population"
    /\ df' = IF empty(df) THEN df ELSE detect(df, population)
    /\ pc' = "gdp"
    /\ UNCHANGED raw /\ Rest

DetectGdp ==
    /\ pc = "gdp"
    /\ df' = IF empty(df) THEN df ELSE detect(df, gdp)
    /\ pc' = "gdp_per_capita"
    /\ UNCHANGED raw /\ Rest

DetectGdpPerCapita ==
    /\ pc = "gdp_per_capita"
    /\ df' = IF empty(df) THEN df ELSE detect(df, gdp_per_capita)
    /\ pc' = "co2_per_capita"
    /\ UNCHANGED raw /\ Rest

DetectCo2PerCapita ==
    /\ pc = "co2_per_capita"
    /\ df' = IF empty(df) THEN df ELSE detect(df, co2_per_capita)
    /\ pc' = "numeric"
    /\ UNCHANGED raw /\ Rest

\* lines 76-79
ToNumeric ==
    /\ pc = "numeric"
    /\ df' = IF empty(df) THEN df ELSE coerce(df)
    /\ pc' = "normalized"
    /\ UNCHANGED raw /\ Rest

\* ---- the raw tables of the column detection runs
Co2_Emissions == "Co2_Emissions"
total_co2 == "total_co2"
Country_Name == "Country_Name"
pop_year == "pop_year"
GDP_PC == "GDP_PC"
gdp_total == "gdp_total"
pop_total == "pop_total"
iso == "iso"

RawNames == {country, Country_Name, year, pop_year, co2, total_co2,
             Co2_Emissions, co2_per_capita, population, gdp, gdp_total,
             GDP_PC, gdp_per_capita, pop_total, iso}

RawHeaders ==
    {h \in UNION {[1..n -> RawNames] : n \in 1..MaxCols} :
        \A i, j \in 1..Len(h) : i # j => lower(h[i]) # lower(h[j])}

RawCells == {Rat(1, 1), Str(1)}

RawRows(h) ==
    {<<>>} \cup {<<[idx |-> 0, v |-> [c \in Range(h) |-> x]]>> : x \in RawCells}

InitNorm ==
    /\ pc = "load"
    /\ \E h \in RawHeaders : \E rs \in RawRows(h) : df = [cols |-> h, rows |-> rs]
    /\ raw = <<>>
    /\ input = NoFrame
    /\ prev = NoFrame
    /\ written = {}
    /\ selected_countries = {}
    /\ year_bounds = <<>>
    /\ selected_years = <<>>
    /\ filtered = NoFrame
    /\ csv = NoCsv

NextNorm ==
    \/ LowerColumns
    \/ DetectCountry
    \/ DetectYear
    \/ DetectCo2
    \/ DetectPopulation
    \/ DetectGdp
    \/ DetectGdpPerCapita
    \/ DetectCo2PerCapita
    \/ ToNumeric

SpecNorm == InitNorm /\ [][NextNorm]_vars

\* -------------------------------------------------------- derived columns
\* the order of two sort keys, missing values last
key_lt(a, b) == IF isna(a) THEN FALSE ELSE IF isna(b) THEN TRUE ELSE Lt(a, b)

\* the order of two rows under sort_values(['country','year'])
row_lt(r, s) ==
    \/ key_lt(r.v[country], s.v[country])
    \/ /\ r.v[country] = s.v[country]
       /\ key_lt(r.v[year], s.v[year])

\* r put into the sorted rows s behind every row that is not greater
insert(s, r) ==
    LET n == Cardinality({i \in 1..Len(s) : ~row_lt(r, s[i])})
    IN  SubSeq(s, 1, n) \o <<r>> \o SubSeq(s, n + 1, Len(s))

RECURSIVE sort_rows(_)
sort_rows(rows) ==
    IF Len(rows) = 0 THEN <<>>
    ELSE insert(sort_rows(SubSeq(rows, 1, Len(rows) - 1)), rows[Len(rows)])

\* df.sort_values(['country','year']): stable, the index labels move with the rows
sort_values(d) == [cols |-> d.cols, rows |-> sort_rows(d.rows)]

\* the running sum of val over the rows 1..i of group g, missing values skipped
RECURSIVE running(_, _, _, _, _)
running(d, key, val, g, i) ==
    IF i = 0 THEN Rat(0, 1)
    ELSE LET p == running(d, key, val, g, i - 1)
             r == d.rows[i].v
         IN  IF r[key] = g /\ ~isna(r[val]) THEN Add(p, r[val]) ELSE p

\* faulty variant: df[val].cumsum(): the running sum over the whole table
plain_cumsum(d, key, val) ==
    [i \in 1..Len(d.rows) |->
        LET r == d.rows[i].v
        IN  IF isna(r[val]) THEN NA
            ELSE running(assign(d, key, [j \in 1..Len(d.rows) |-> NA]),
                         key, val, NA, i)]

\* df.groupby(key)[val].cumsum(): a row with a missing key or value gets NaN
groupby_cumsum(d, key, val) ==
    [i \in 1..Len(d.rows) |->
        LET r == d.rows[i].v
        IN  IF isna(r[key]) \/ isna(r[val]) THEN NA
            ELSE running(d, key, val, r[key], i)]

\* df.groupby(key)[val].transform('sum'): a row with a missing key gets NaN
groupby_sum(d, key, val) ==
    [i \in 1..Len(d.rows) |->
        LET r == d.rows[i].v
        IN  IF isna(r[key]) THEN NA
            ELSE running(d, key, val, r[key], Len(d.rows))]

\* lines 83-84
guard1(d) == ~has(d, co2_per_capita) /\ has(d, co2) /\ has(d, population)
step1(d) ==
    IF guard1(d)
    THEN assign(d, co2_per_capita,
                [i \in 1..Len(d.rows) |->
                    Div(d.rows[i].v[co2], d.rows[i].v[population])])
    ELSE d

\* lines 87-89
guard2(d) ==
    ~has(d, cumulative_co2) /\ has(d, co2) /\ has(d, country) /\ has(d, year)
step2(d) ==
    IF guard2(d)
    THEN LET s == sort_values(d)
         IN  assign(s, cumulative_co2, groupby_cumsum(s, country, co2))
    ELSE d

\* (df[val] / df[total] * 100).fillna(0)
pct(d, val, total) ==
    [i \in 1..Len(d.rows) |->
        fillna(Times100(Div(d.rows[i].v[val], d.rows[i].v[total])), Rat(0, 1))]

\* lines 92-95
guard3(d) == has(d, co2) /\ has(d, year)
step3(d) ==
    IF guard3(d)
    THEN LET t == assign(d, global_total_co2, groupby_sum(d, year, co2))
         IN  assign(t, co2_pct, pct(t, co2, global_total_co2))
    ELSE d

\* lines 98-100
guard4(d) == has(d, gdp) /\ has(d, year)
step4(d) ==
    IF guard4(d)
    THEN LET t == assign(d, global_total_gdp, groupby_sum(d, year, gdp))
         IN  assign(t, gdp_pct, pct(t, gdp, global_total_gdp))
    ELSE d

\* lines 103-105
guard5(d) == ~has(d, gdp_per_capita) /\ has(d, gdp) /\ has(d, population)
step5(d) ==
    IF guard5(d)
    THEN assign(d, gdp_per_capita,
                [i \in 1..Len(d.rows) |->
                    Div(d.rows[i].v[gdp], d.rows[i].v[population])])
    ELSE d

\* faulty variant: co2 / gdp without the replace of the zeros
per_gdp_noreplace(d) ==
    [i \in 1..Len(d.rows) |-> Div(d.rows[i].v[co2], d.rows[i].v[gdp])]

\* df['co2'] / df['gdp'].replace({0: pd.NA})
per_gdp(d) ==
    [i \in 1..Len(d.rows) |->
        Div(d.rows[i].v[co2], replace0(d.rows[i].v[gdp]))]

\* lines 108-110
guard6(d) == ~has(d, co2_per_gdp) /\ has(d, co2) /\ has(d, gdp)
step6(d) == IF guard6(d) THEN assign(d, co2_per_gdp, per_gdp(d)) ELSE d

\* lines 82-110, top to bottom
derive(d) == step6(step5(step4(step3(step2(step1(d))))))

\* the columns one pass of lines 82-110 assigns
assigned(d) ==
    LET d1 == step1(d)
        d2 == step2(d1)
        d3 == step3(d2)
        d4 == step4(d3)
        d5 == step5(d4)
    IN  (IF guard1(d) THEN {co2_per_capita} ELSE {})
        \cup (IF guard2(d1) THEN {cumulative_co2} ELSE {})
        \cup (IF guard3(d2) THEN {global_total_co2, co2_pct} ELSE {})
        \cup (IF guard4(d3) THEN {global_total_gdp, gdp_pct} ELSE {})
        \cup (IF guard5(d4) THEN {gdp_per_capita} ELSE {})
        \cup (IF guard6(d5) THEN {co2_per_gdp} ELSE {})

\* lines 81-110 under "if not df.empty"
Derive ==
    /\ pc = "derive"
    /\ input' = df
    /\ df' = IF empty(df) THEN df ELSE derive(df)
    /\ written' = IF empty(df) THEN {} ELSE assigned(df)
    /\ pc' = "derived"
    /\ UNCHANGED <<raw, prev, selected_countries, year_bounds, selected_years,
                 filtered, csv>>

\* lines 81-110 once more, on the table they produced
DeriveAgain ==
    /\ pc = "derived"
    /\ prev' = df
    /\ df' = IF empty(df) THEN df ELSE derive(df)
    /\ written' = IF empty(df) THEN {} ELSE assigned(df)
    /\ pc' = "derived2"
    /\ UNCHANGED <<raw, input, selected_countries, year_bounds, selected_years,
                 filtered, csv>>

derived_cols == <<co2_per_capita, cumulative_co2, global_total_co2, co2_pct,
                  global_total_gdp, gdp_pct, gdp_per_capita, co2_per_gdp>>

\* ---- the normalized tables of the derivation runs
\* the rows over the columns cols whose cell in column c is one of V[c]
RECURSIVE RowsOver(_, _)
RowsOver(cols, V) ==
    IF Len(cols) = 0 THEN {<<>>}
    ELSE {r @@ (Head(cols) :> x) : r \in RowsOver(Tail(cols), V), x \in V[Head(cols)]}

\* the table of the rows f[1], ..., f[n], under the index 0..n-1 read_csv gives
Table(cols, f) ==
    [cols |-> cols,
     rows |-> [i \in 1..Len(f) |-> [idx |-> i - 1, v |-> f[i]]]]

Start(schemas, V) ==
    /\ pc = "derive"
    /\ \E h \in schemas, n \in 0..MaxRows :
          \E f \in [1..n -> RowsOver(h, V)] : df = Table(h, f)
    /\ raw = <<>>
    /\ input = NoFrame
    /\ prev = NoFrame
    /\ written = {}
    /\ selected_countries = {}
    /\ year_bounds = <<>>
    /\ selected_years = <<>>
    /\ filtered = NoFrame
    /\ csv = NoCsv

\* ---- derivation runs: three schemas of canonical columns
Cells ==
    [c \in Range(targets) \cup Range(derived_cols) |->
        CASE c = country -> {Str(1), Str(2), NA}
          [] c = year -> {Rat(0, 1), Rat(1, 1), NA}
          [] c = co2 -> {Rat(-1, 1), Rat(0, 1), Rat(1, 1), NA}
          [] c = gdp -> {Rat(0, 1), Rat(2, 1), NA}
          [] c = population -> {Rat(0, 1), Rat(2, 1), NA}
          [] OTHER -> {Rat(7, 1)}]

Schemas == {<<country, year, co2>>,
            <<year, co2, gdp>>,
            <<co2, gdp, population>>}

Init == Start(Schemas, Cells)

Next == Derive

Spec == Init /\ [][Next]_vars

\* ---- two passes, on tables that may already hold one derived column
CellsTwice ==
    [c \in Range(targets) \cup Range(derived_cols) |->
        CASE c = country -> {Str(1), Str(2)}
          [] c = year -> {Rat(0, 1), Rat(1, 1)}
          [] c = co2 -> {Rat(0, 1), Rat(1, 1)}
          [] c = gdp -> {Rat(0, 1), Rat(2, 1)}
          [] c = population -> {Rat(0, 1), Rat(2, 1)}
          [] OTHER -> {Rat(7, 1)}]

SchemasTwice ==
    {<<country, year, co2, population, gdp>>} \cup
    {<<country, year, co2, population, gdp, derived_cols[i]>> :
        i \in 1..Len(derived_cols)}

InitTwice == Start(SchemasTwice, CellsTwice)

NextTwice ==
    \/ Derive
    \/ DeriveAgain

SpecTwice == InitTwice /\ [][NextTwice]_vars

\* ------------------------------------------ sidebar, filtering, export
\* the present cells of column c
present(d, c) == {r.v[c] : r \in {x \in Range(d.rows) : ~isna(x.v[c])}}

\* df[c].min() and df[c].max(), missing values skipped
min(d, c) == CHOOSE a \in present(d, c) : \A b \in present(d, c) : ~Lt(b, a)
max(d, c) == CHOOSE a \in present(d, c) : \A b \in present(d, c) : ~Lt(a, b)

\* lines 121-133: the options offered and the selection made in the sidebar
Sidebar ==
    /\ pc = "derived"
    /\ ~(has(df, year) /\ ~empty(df) /\ present(df, year) = {})
    /\ selected_countries' \in
          IF has(df, country) /\ ~empty(df)
          THEN SUBSET present(df, country)
          ELSE {{}}
    /\ IF has(df, year) /\ ~empty(df)
       THEN /\ year_bounds' = <<int(min(df, year)), int(max(df, year))>>
            /\ selected_years' \in
                  {<<lo, hi>> : lo \in year_bounds'[1]..year_bounds'[2],
                                hi \in year_bounds'[1]..year_bounds'[2]}
            /\ selected_years'[1] <= selected_years'[2]
       ELSE /\ year_bounds' = <<>>
            /\ selected_years' = <<>>
    /\ pc' = "selected"
    /\ UNCHANGED <<df, raw, input, prev, written, filtered, csv>>

\* lines 129-130 on a year column with no present value: int(nan) raises
SidebarYearError ==
    /\ pc = "derived"
    /\ has(df, year) /\ ~empty(df) /\ present(df, year) = {}
    /\ pc' = "error"
    /\ UNCHANGED <<df, raw, input, prev, written, selected_countries,
                   year_bounds, selected_years, filtered, csv>>

\* d[mask]: the table of the rows the mask keeps, in their order
masked(d, rows) == [cols |-> d.cols, rows |-> rows]

\* filtered['country'].isin(selected_countries)
isin(a, S) == ~isna(a) /\ a \in S

\* faulty variant: the year mask with an exclusive upper end
year_mask_exclusive(a, sel) ==
    ~isna(a) /\ ~Lt(a, Rat(sel[1], 1)) /\ Lt(a, Rat(sel[2], 1))

\* (filtered['year'] >= selected_years[0]) & (filtered['year'] <= selected_years[1])
year_mask(a, sel) ==
    ~isna(a) /\ ~Lt(a, Rat(sel[1], 1)) /\ ~Lt(Rat(sel[2], 1), a)

\* lines 146-151
filter(d, countries, years) ==
    IF empty(d) THEN d
    ELSE LET in_country(r) == isin(r.v[country], countries)
             in_years(r) == year_mask(r.v[year], years)
             f == IF countries # {}
                  THEN masked(d, SelectSeq(d.rows, in_country))
                  ELSE d
         IN  IF years # <<>> /\ has(f, year)
             THEN masked(f, SelectSeq(f.rows, in_years))
             ELSE f

Filter ==
    /\ pc = "selected"
    /\ filtered' = filter(df, selected_countries, selected_years)
    /\ pc' = "filtered"
    /\ UNCHANGED <<df, raw, input, prev, written, selected_countries,
                   year_bounds, selected_years, csv>>

\* lines 195-197: every master column the table lacks is added, all missing
RECURSIVE with_columns(_, _)
with_columns(d, cols) ==
    IF Len(cols) = 0 THEN d
    ELSE LET c == Head(cols)
             e == IF has(d, c) THEN d
                  ELSE assign(d, c, [i \in 1..Len(d.rows) |-> NA])
         IN  with_columns(e, Tail(cols))

\* d[cols]
project(d, cols) ==
    [cols |-> cols,
     rows |-> [i \in 1..Len(d.rows) |->
                  [idx |-> d.rows[i].idx,
                   v |-> [c \in Range(cols) |-> d.rows[i].v[c]]]]]

\* faulty variant: the projection on existing_master_cols, line 188
existing_master_df(d) ==
    project(d, SelectSeq(master_cols, LAMBDA c : has(d, c)))

\* lines 193-198
master_df(d) == project(with_columns(d, master_cols), master_cols)

\* a field of the CSV text: a missing value is written as the empty field
Blank == [k |-> "blank", n |-> 0, d |-> 1]
field(a) == IF isna(a) THEN Blank ELSE a

\* d.to_csv(index=False): the header line, then one line of fields per row
to_csv(d) ==
    [header |-> d.cols,
     lines |-> [i \in 1..Len(d.rows) |->
                   [j \in 1..Len(d.cols) |-> field(d.rows[i].v[d.cols[j]])]]]

\* lines 190-201
Master ==
    /\ pc = "filtered"
    /\ csv' = IF empty(filtered) THEN NoCsv ELSE to_csv(master_df(filtered))
    /\ pc' = "done"
    /\ UNCHANGED <<df, raw, input, prev, written, selected_countries,
                   year_bounds, selected_years, filtered>>

\* ---- runs through the sidebar, the filter and the export
CellsView ==
    [c \in Range(targets) \cup Range(derived_cols) |->
        CASE c = country -> {Str(1), Str(2), NA}
          [] c = year -> {Rat(0, 1), Rat(1, 1), Rat(2, 1), NA}
          [] c = co2 -> {Rat(1, 1)}
          [] c = gdp -> {Rat(2, 1)}
          [] c = population -> {Rat(2, 1)}
          [] OTHER -> {Rat(7, 1)}]

SchemasView == {<<country, year, co2>>,
                <<year, gdp, population>>,
                <<country, co2, gdp>>}

InitView == Start(SchemasView, CellsView)

NextView ==
    \/ Derive
    \/ Sidebar
    \/ SidebarYearError
    \/ Filter
    \/ Master

SpecView == InitView /\ [][NextView]_vars

\* ------------------------------------------------- column detection: C8
DetectionDone == pc \in {"numeric", "normalized"}

Min(S) == CHOOSE i \in S : \A j \in S : i <= j

\* the columns of the loaded header whose name satisfies the rule of targets[k]
Hits(k) == {i \in 1..Len(raw) : match(targets[k], raw[i])}

\* the columns an earlier target has been given
Claimed(k) ==
    {i \in 1..Len(raw) :
        df.cols[i] # raw[i] /\ \E j \in 1..(k - 1) : df.cols[i] = targets[j]}

\* C8 as stated: for every target whose exact name is not in the lower-cased
\* header, the column that ends up with the target's name is the first column
\* of the header whose name satisfies the target's rule, whatever the other
\* targets renamed.
C8_Independent ==
    (DetectionDone /\ ~empty(df)) =>
        \A k \in 1..Len(targets) :
            targets[k] \notin Range(raw) =>
                IF Hits(k) = {}
                THEN targets[k] \notin Range(df.cols)
                ELSE df.cols[Min(Hits(k))] = targets[k]

\* C8 amended: on a table with at least one row, for every target whose exact
\* name is not in the lower-cased header, the one column that ends up with the
\* target's name is the first column, in column order, that satisfies the
\* target's rule and was not renamed for an earlier target (order country,
\* year, co2, population, gdp, gdp_per_capita, co2_per_capita); if there is no
\* such column, no column carries the name.
C8_FirstUnclaimedMatch ==
    (DetectionDone /\ ~empty(df)) =>
        \A k \in 1..Len(targets) :
            targets[k] \notin Range(raw) =>
                LET free == Hits(k) \ Claimed(k)
                IN  IF free = {}
                    THEN targets[k] \notin Range(df.cols)
                    ELSE \A i \in 1..Len(df.cols) :
                            df.cols[i] = targets[k] <=> i = Min(free)

\* a column that satisfies the rule of population was taken by year, and the
\* next matching column became population
C8_Witness ==
    /\ DetectionDone
    /\ ~empty(df)
    /\ \E k \in 1..Len(targets) :
          /\ targets[k] \notin Range(raw)
          /\ Hits(k) \cap Claimed(k) # {}
          /\ \E i \in Hits(k) \ Claimed(k) :
                /\ df.cols[i] = targets[k]
                /\ \E j \in Hits(k) \cap Claimed(k) : j < i

\* ------------------------------------------------ derived columns: C1-C4
RECURSIVE SumPairs(_)
\* the sum of the cells of a set of <<row, cell>> pairs
SumPairs(S) ==
    IF S = {} THEN Rat(0, 1)
    ELSE LET p == CHOOSE q \in S : TRUE
         IN  Add(p[2], SumPairs(S \ {p}))

\* the row of the loaded table that carries index label x
InputRow(x) == CHOOSE r \in Range(input.rows) : r.idx = x

\* the table holds the rows of the loaded table, each with its loaded cells
SameRows ==
    /\ Len(df.rows) = Len(input.rows)
    /\ {r.idx : r \in Range(df.rows)} = {r.idx : r \in Range(input.rows)}
    /\ \A r \in Range(df.rows) :
          \A c \in Range(input.cols) : r.v[c] = InputRow(r.idx).v[c]

\* rows i < j of the table are in (country, year) order: ascending, a missing
\* key behind every present one, rows with equal keys in their loaded order
InOrder(i, j) ==
    LET a == df.rows[i].v
        b == df.rows[j].v
    IN  /\ isna(a[country]) => isna(b[country])
        /\ (~isna(a[country]) /\ ~isna(b[country])) => a[country].n <= b[country].n
        /\ a[country] = b[country] =>
              /\ isna(a[year]) => isna(b[year])
              /\ (~isna(a[year]) /\ ~isna(b[year])) =>
                    a[year].n * b[year].d <= b[year].n * a[year].d
              /\ a[year] = b[year] => df.rows[i].idx < df.rows[j].idx

CumulativeCase ==
    /\ pc = "derived"
    /\ ~empty(input)
    /\ has(input, co2) /\ has(input, country) /\ has(input, year)
    /\ ~has(input, cumulative_co2)

\* C1: with co2, country and year present and cumulative_co2 absent, the rows
\* come out in (country, year) ascending order and every row's cumulative_co2
\* is the sum of the co2 of the rows of its country at or before it in that
\* order (missing co2 values are skipped; a row whose own co2 or country is
\* missing gets a missing value); rows of other countries never contribute.
C1_CumulativePerCountry ==
    CumulativeCase =>
        /\ SameRows
        /\ has(df, cumulative_co2)
        /\ \A i, j \in 1..Len(df.rows) : i < j => InOrder(i, j)
        /\ \A i \in 1..Len(df.rows) :
              LET a == df.rows[i].v
              IN  a[cumulative_co2] =
                     IF isna(a[country]) \/ isna(a[co2]) THEN NA
                     ELSE SumPairs({<<j, df.rows[j].v[co2]>> : j \in
                            {j \in 1..i : /\ df.rows[j].v[country] = a[country]
                                          /\ ~isna(df.rows[j].v[co2])}})

\* two rows of one country, loaded in descending year order, are swapped and
\* the later one holds the sum of both, while a row of another country
\* would hold its own co2 only
C1_Witness ==
    /\ CumulativeCase
    /\ \E i, j \in 1..Len(df.rows) :
          /\ i < j
          /\ df.rows[i].idx > df.rows[j].idx
          /\ df.rows[i].v[country] = df.rows[j].v[country]
          /\ ~isna(df.rows[i].v[country])
          /\ df.rows[i].v[co2] = Rat(1, 1)
          /\ df.rows[j].v[co2] = Rat(1, 1)
          /\ df.rows[j].v[cumulative_co2] = Rat(2, 1)

\* the sum of column c over the rows of the table whose year is y
YearTotal(c, y) ==
    SumPairs({<<j, df.rows[j].v[c]>> : j \in
                {j \in 1..Len(df.rows) : /\ df.rows[j].v[year] = y
                                         /\ ~isna(df.rows[j].v[c])}})

\* the share p of a row is value / total * 100, or 0 where the total is zero
\* or missing (or the value is missing), and is a finite number
ShareOf(p, value, total) ==
    /\ p.k = "num"
    /\ IF isna(total) \/ isna(value) \/ total.n = 0
       THEN p.n = 0
       ELSE p.n * value.d * total.n = 100 * value.n * total.d * p.d

TotalsOf(c, tot, share) ==
    \A i \in 1..Len(df.rows) :
        LET a == df.rows[i].v
        IN  /\ a[tot] = IF isna(a[year]) THEN NA ELSE YearTotal(c, a[year])
            /\ ShareOf(a[share], a[c], a[tot])

\* C2: with co2 and year present, every row's global_total_co2 is the sum of
\* co2 over the rows of its year and its co2_pct is co2 / global_total_co2 *
\* 100, 0 where the total is zero or missing, never infinite or missing; the
\* same for gdp, global_total_gdp and gdp_pct.
C2_SharesFinite ==
    (pc = "derived" /\ ~empty(input) /\ has(input, year)) =>
        /\ has(input, co2) => TotalsOf(co2, global_total_co2, co2_pct)
        /\ has(input, gdp) => TotalsOf(gdp, global_total_gdp, gdp_pct)

PerGdpCase ==
    /\ pc = "derived"
    /\ ~empty(input)
    /\ has(input, co2) /\ has(input, gdp)
    /\ ~has(input, co2_per_gdp)

\* C3: when co2_per_gdp is derived, every row whose gdp is exactly 0 gets a
\* missing value, never an infinity, whatever its co2; every row with a
\* non-zero gdp gets co2 / gdp (missing where co2 or gdp is missing).
C3_PerGdpZeroIsMissing ==
    PerGdpCase =>
        /\ SameRows
        /\ has(df, co2_per_gdp)
        /\ \A r \in Range(df.rows) :
              LET x == r.v[co2]
                  g == r.v[gdp]
                  q == r.v[co2_per_gdp]
              IN  IF isna(g) \/ isna(x) \/ g.n = 0
                  THEN q = NA
                  ELSE /\ q.k = "num"
                       /\ q.n * x.d * g.n = x.n * g.d * q.d

\* a row with co2 = 1 and gdp = 0 has a missing co2_per_gdp, beside a row with
\* a non-zero gdp that holds the quotient
C3_Witness ==
    /\ PerGdpCase
    /\ \E r \in Range(df.rows) :
          /\ r.v[co2] = Rat(1, 1)
          /\ r.v[gdp] = Rat(0, 1)
          /\ r.v[co2_per_gdp] = NA
    /\ \E r \in Range(df.rows) :
          /\ r.v[co2] = Rat(1, 1)
          /\ r.v[gdp] = Rat(2, 1)
          /\ r.v[co2_per_gdp] = Rat(1, 2)

\* C4: when co2_per_capita or gdp_per_capita is derived from population, every
\* row whose population is exactly zero gets a missing value for it, never an
\* infinity.
C4_PerCapitaZeroIsMissing ==
    (pc = "derived" /\ ~empty(input) /\ has(input, population)) =>
        /\ (has(input, co2) /\ ~has(input, co2_per_capita)) =>
              \A r \in Range(df.rows) :
                  (r.v[population].k = "num" /\ r.v[population].n = 0) =>
                      isna(r.v[co2_per_capita])
        /\ (has(input, gdp) /\ ~has(input, gdp_per_capita)) =>
              \A r \in Range(df.rows) :
                  (r.v[population].k = "num" /\ r.v[population].n = 0) =>
                      isna(r.v[gdp_per_capita])

\* ------------------------------------------------ derived columns: C5, C6
\* C5: every derived column that is already a column of the loaded table
\* keeps its loaded values.
C5_SuppliedColumnsKept ==
    (pc = "derived" /\ ~empty(input)) =>
        \A c \in Range(derived_cols) \cap Range(input.cols) :
            \A r \in Range(df.rows) : r.v[c] = InputRow(r.idx).v[c]

\* C6: the second pass returns the table of the first, and assigns no
\* derived column, each one being skipped because it already exists.
C6_SecondPassSkipsAll ==
    pc = "derived2" => (df = prev /\ written = {})

\* the part of C6 the code does satisfy: the second pass returns the table of
\* the first with the same columns, row order and cells
SecondPassSameTable ==
    pc = "derived2" => df = prev

\* --------------------------------------------- filtering, export: C7, C9, C10
\* the row is one the selection made in the sidebar asks for
Selected(r) ==
    /\ selected_countries # {} => r.v[country] \in selected_countries
    /\ selected_years # <<>> =>
          LET y == r.v[year]
          IN  /\ y.k = "num"
              /\ selected_years[1] * y.d <= y.n
              /\ y.n <= selected_years[2] * y.d

\* C9: the filtered view holds exactly the rows of the derived table whose
\* country is in the selected set (every row when the set is empty) and
\* whose year y has min <= y <= max for the selected inclusive range.
C9_FilteredExactly ==
    pc \in {"filtered", "done"} =>
        /\ filtered.cols = df.cols
        /\ Range(filtered.rows) = {r \in Range(df.rows) : Selected(r)}
        /\ Len(filtered.rows) = Cardinality(Range(filtered.rows))

\* with a country selected, one row is kept and another row of a selected
\* country is left out because its year is outside the range
C9_Witness ==
    /\ pc = "filtered"
    /\ selected_countries # {}
    /\ Len(filtered.rows) >= 1
    /\ \E r \in Range(df.rows) :
          /\ r \notin Range(filtered.rows)
          /\ r.v[country] \in selected_countries
          /\ r.v[year].k = "num"

EightColumns == <<"country", "year", "co2_pct", "co2_per_capita",
                  "cumulative_co2", "gdp_pct", "gdp_per_capita", "co2_per_gdp">>

\* C7 as stated: for every derived table and every filter selection the
\* export has exactly the eight master columns in their fixed order, a master
\* column the derived table lacks being all missing.
C7_AlwaysEightColumns ==
    pc = "done" =>
        /\ csv.header = EightColumns
        /\ \A i \in 1..Len(csv.lines) :
              \A j \in 1..Len(EightColumns) :
                  EightColumns[j] \notin Range(df.cols) => csv.lines[i][j] = Blank

\* C7 amended: for every derived table and every filter selection that
\* leaves at least one row, the export has exactly the eight master columns
\* in their fixed order, one line per row of the filtered view, and in every
\* line an empty field for each master column the derived table lacks (the
\* other fields hold the row's cells); when the filtered view has no row, no
\* export is offered at all.
C7_ExportHasEightColumns ==
    pc = "done" =>
        /\ csv = NoCsv <=> Len(filtered.rows) = 0
        /\ csv # NoCsv =>
              /\ csv.header = EightColumns
              /\ Len(csv.lines) = Len(filtered.rows)
              /\ \A i \in 1..Len(csv.lines) :
                    /\ Len(csv.lines[i]) = Len(EightColumns)
                    /\ \A j \in 1..Len(EightColumns) :
                          IF EightColumns[j] \in Range(df.cols)
                          THEN LET a == filtered.rows[i].v[EightColumns[j]]
                               IN  csv.lines[i][j] = IF a = NA THEN Blank ELSE a
                          ELSE csv.lines[i][j] = Blank

\* an export of a table without population and gdp: gdp_pct, the per-capita
\* columns and co2_per_gdp are empty in a line whose co2_pct is filled
C7_Witness ==
    /\ pc = "done"
    /\ csv # NoCsv
    /\ ~has(df, gdp_per_capita) /\ ~has(df, co2_per_gdp)
    /\ has(df, co2_pct)
    /\ \E i \in 1..Len(csv.lines) :
          /\ csv.lines[i][3] # Blank
          /\ csv.lines[i][7] = Blank
          /\ csv.lines[i][8] = Blank

====
